---- MODULE Spec2Model ----
(***************************************************************************)
(* Model of src/main.py: LangChainApifyAssistant.                          *)
(*                                                                         *)
(* process_query(query) runs should_search_images (one text-service call), *)
(* then, if the answer contained "YES", search_images (an actor run and a  *)
(* read of its dataset), then get_text_response_with_images (one           *)
(* text-service call) and returns a record.                                *)
(*                                                                         *)
(* Python values are modelled as follows.                                  *)
(*   - A dict key is a tagged value [tag, v]: tag "absent" (no such key),  *)
(*     "none" (key present, value None / JSON null) or "val" (v is the     *)
(*     value).  dict.get(k, d) is Get; dict.get(k) is GetNone.             *)
(*   - Text that the code only copies is a TLA+ string.  Text that the     *)
(*     code transforms (str.upper, str.title) is a tuple of one-character  *)
(*     strings, transformed character by character.                        *)
(*   - A prompt is the sequence of the string pieces the f-strings         *)
(*     concatenate, in order.                                              *)
(***************************************************************************)
EXTENDS Integers, Sequences, FiniteSets

(***************************************************************************)
(* Bounds of the model.                                                    *)
(***************************************************************************)
MaxImages == 6
MaxPerspectives == 2
MaxDataset == 2

(***************************************************************************)
(* Program constant: images[:5] in get_text_response_with_images.          *)
(***************************************************************************)
MaxPromptImages == 5

(***************************************************************************)
(* Tagged values.                                                          *)
(***************************************************************************)
AbsentStr == [tag |-> "absent", v |-> ""]
NoneStr == [tag |-> "none", v |-> ""]
ValStr(s) == [tag |-> "val", v |-> s]

AbsentInt == [tag |-> "absent", v |-> 0]
NoneInt == [tag |-> "none", v |-> 0]
ValInt(n) == [tag |-> "val", v |-> n]

AbsentSeq == [tag |-> "absent", v |-> <<>>]
NoneSeq == [tag |-> "none", v |-> <<>>]
ValSeq(s) == [tag |-> "val", v |-> s]

\* dict.get(key, default): the default only when the key is absent.
Get(f, default) == IF f.tag = "absent" THEN [tag |-> "val", v |-> default] ELSE f

\* dict.get(key): None when the key is absent.
GetNone(f) == IF f.tag = "absent" THEN [tag |-> "none", v |-> f.v] ELSE f

(***************************************************************************)
(* Characters, str.upper() and str.title().                                *)
(***************************************************************************)
Lowers == <<"a", "b", "c", "d", "e", "f", "g", "h", "i", "j", "k", "l", "m",
            "n", "o", "p", "q", "r", "s", "t", "u", "v", "w", "x", "y", "z">>
Uppers == <<"A", "B", "C", "D", "E", "F", "G", "H", "I", "J", "K", "L", "M",
            "N", "O", "P", "Q", "R", "S", "T", "U", "V", "W", "X", "Y", "Z">>

IsLower(c) == \E i \in DOMAIN Lowers : Lowers[i] = c
IsUpper(c) == \E i \in DOMAIN Uppers : Uppers[i] = c
IsLetter(c) == IsLower(c) \/ IsUpper(c)
UpperChar(c) == IF IsLower(c) THEN Uppers[CHOOSE i \in DOMAIN Lowers : Lowers[i] = c] ELSE c
LowerChar(c) == IF IsUpper(c) THEN Lowers[CHOOSE i \in DOMAIN Uppers : Uppers[i] = c] ELSE c

\* str.upper()
UpperStr(s) == [i \in DOMAIN s |-> UpperChar(s[i])]

\* str.title(): a letter that follows a non-letter (or starts the text) is
\* upper-cased, every other letter is lower-cased.
TitleStr(s) ==
  [i \in DOMAIN s |->
     IF i = 1 \/ ~IsLetter(s[i - 1]) THEN UpperChar(s[i]) ELSE LowerChar(s[i])]

\* needle in hay, for tuples of characters.
Contains(hay, needle) ==
  \E i \in 1..(Len(hay) - Len(needle) + 1) :
     SubSeq(hay, i, i + Len(needle) - 1) = needle

\* The text of a tuple of characters.
RECURSIVE Join(_)
Join(s) == IF s = <<>> THEN "" ELSE s[1] \o Join(Tail(s))

\* str(n) of a natural number.
Digits == <<"0", "1", "2", "3", "4", "5", "6", "7", "8", "9">>
RECURSIVE IntToStr(_)
IntToStr(n) == IF n < 10 THEN Digits[n + 1] ELSE IntToStr(n \div 10) \o Digits[(n % 10) + 1]

Min(a, b) == IF a < b THEN a ELSE b

(***************************************************************************)
(* Records of the image-search service.  An images_data value is           *)
(* [none, images, search_perspectives, total_results, agent_response]:     *)
(* none is TRUE for Python's None, and a dict is empty when every key is   *)
(* absent (agent_response stands for every key the code does not read).    *)
(***************************************************************************)
Dict(im, sp, tr, ar) ==
  [none |-> FALSE, images |-> im, search_perspectives |-> sp,
   total_results |-> tr, agent_response |-> ar]
EmptyDict == Dict(AbsentSeq, AbsentSeq, AbsentInt, AbsentStr)
NoneData == [EmptyDict EXCEPT !.none = TRUE]

Perspective(pt, q, n) == [perspective_type |-> pt, query |-> q, images_found |-> n]
ImageItem(t, dl, l, w, h, pq) ==
  [title |-> t, display_link |-> dl, link |-> l, width |-> w, height |-> h,
   perspective_query |-> pq]

\* bool(images_data), bool(list)
Truthy(d) ==
  /\ ~d.none
  /\ \/ d.images.tag # "absent"
     \/ d.search_perspectives.tag # "absent"
     \/ d.total_results.tag # "absent"
     \/ d.agent_response.tag # "absent"
TruthySeq(f) == f.tag = "val" /\ Len(f.v) > 0

(***************************************************************************)
(* The inputs the model draws from.                                        *)
(***************************************************************************)
Queries == {"What is machine learning?", "Tesla Model Y interior dashboard"}

ClassifyResponses ==
  { <<"Y", "E", "S">>,
    <<"N", "O">>,
    <<"Y", "e", "s", ",", " ", "a", "b", "s", "o", "l", "u", "t", "e", "l", "y">>,
    <<"N", "o", ".">>,
    <<"e", "y", "e", "s">>,
    <<"Y", " ", "E", "S">>,
    <<>> }

ComposeResponses == {"Machine learning is ...", "The dashboard shows ..."}

BroadSearch == <<"b", "r", "o", "a", "d", " ", "s", "e", "a", "r", "c", "h">>

PerspectivePool ==
  << Perspective(ValSeq(BroadSearch), ValStr("tesla model y interior"), ValInt(12)),
     Perspective(AbsentSeq, AbsentStr, AbsentInt),
     Perspective(ValSeq(<<"U", "S", "E", "R">>), NoneStr, NoneInt),
     Perspective(NoneSeq, ValStr("tesla dashboard close-up"), ValInt(3)) >>

\* Perspectives as the data model types them: a key is absent or holds a value.
TypedPerspectivePool == SubSeq(PerspectivePool, 1, 2)

ImagePool ==
  << ImageItem(ValStr("Model Y cabin"), ValStr("tesla.com"), ValStr("https://tesla.com/a.jpg"),
               ValInt(1920), ValInt(1080), ValStr("tesla model y interior")),
     ImageItem(AbsentStr, AbsentStr, AbsentStr, AbsentInt, AbsentInt, AbsentStr),
     ImageItem(NoneStr, NoneStr, NoneStr, NoneInt, NoneInt, NoneStr),
     ImageItem(ValStr("Dashboard"), ValStr("caranddriver.com"), AbsentStr,
               ValInt(640), AbsentInt, ValStr("tesla dashboard close-up")) >>

\* The list of n elements that walks round pool starting at its k-th element.
CycleList(pool, n, k) == [i \in 1..n |-> pool[((i + k - 2) % Len(pool)) + 1]]
CycleLists(pool, maxLen) ==
  {CycleList(pool, n, k) : n \in 0..maxLen, k \in DOMAIN pool}

ImageLists == CycleLists(ImagePool, MaxImages)
PerspectiveLists == CycleLists(PerspectivePool, MaxPerspectives)
TypedPerspectiveLists == CycleLists(TypedPerspectivePool, MaxPerspectives)

\* What a dataset record may hold: the remote service enforces no contract.
Records ==
  { Dict(im, sp, tr, ar) :
      im \in {AbsentSeq, NoneSeq} \cup {ValSeq(l) : l \in ImageLists},
      sp \in {AbsentSeq, NoneSeq} \cup {ValSeq(l) : l \in PerspectiveLists},
      tr \in {AbsentInt, NoneInt, ValInt(0), ValInt(7)},
      ar \in {AbsentStr, ValStr("searched from several angles")} }

\* An ImageSearchResult as the data model types it, with optional keys.
TypedRecords ==
  { Dict(im, sp, tr, ar) :
      im \in {AbsentSeq} \cup {ValSeq(l) : l \in ImageLists},
      sp \in {AbsentSeq} \cup {ValSeq(l) : l \in TypedPerspectiveLists},
      tr \in {AbsentInt, ValInt(0), ValInt(7)},
      ar \in {AbsentStr, ValStr("searched from several angles")} }

\* The records of a dataset after the first.
LaterRecord == Dict(ValSeq(<<ImagePool[1]>>), ValSeq(<<PerspectivePool[1]>>), ValInt(1), AbsentStr)
Datasets ==
  {<<>>} \cup
  { <<r>> \o [i \in 1..n |-> LaterRecord] : r \in Records, n \in 0..(MaxDataset - 1) }

(***************************************************************************)
(* should_search_images: the prompt and the decision.                      *)
(***************************************************************************)
ClassifyPrompt(q) ==
  << "\nDoes this query need visual images to answer properly?\nQuery: \"", q,
     "\"\n\nAnswer only \"YES\" or \"NO\"\n" >>

\* Faulty variant: the answer must be exactly "YES" once upper-cased.
NeedsImagesExact(content) == UpperStr(content) = <<"Y", "E", "S">>

NeedsImagesOf(content) == Contains(UpperStr(content), <<"Y", "E", "S">>)

(***************************************************************************)
(* get_text_response_with_images: the prompt.                              *)
(***************************************************************************)
\* f"{d.get(key, default)}" of a text key and of an integer key.
FormatStrOr(f, default) == IF Get(f, default).tag = "none" THEN "None" ELSE Get(f, default).v
FormatIntOr(f, defaultText) ==
  CASE f.tag = "absent" -> defaultText
    [] f.tag = "none" -> "None"
    [] OTHER -> IntToStr(f.v)

\* Faulty variant: only "not images_data" is tested.
UsesPlainOnlyWhenFalsy(d) == ~Truthy(d)

UsesPlainPrompt(d) == ~Truthy(d) \/ ~TruthySeq(GetNone(d.images))

PlainPrompt(q) == <<"Answer this query comprehensively: '", q, "'">>

\* images_data.get('search_perspectives', [])
PerspectivesOf(d) == Get(d.search_perspectives, <<>>)

\* Faulty variant: no truncation.
ShownAllImages(images) == images

\* images[:5]
ShownImages(images) == SubSeq(images, 1, Min(MaxPromptImages, Len(images)))

\* p.get('perspective_type', 'Unknown').title() raises on None.
PerspectiveRaises(p) == p.perspective_type.tag = "none"

\* The exception building the composite prompt raises, "" when it raises none:
\* len(None) is a TypeError, None.title() an AttributeError.
BuildError(d) ==
  IF UsesPlainPrompt(d) THEN ""
  ELSE IF PerspectivesOf(d).tag = "none" THEN "TypeError"
  ELSE IF \E i \in DOMAIN PerspectivesOf(d).v : PerspectiveRaises(PerspectivesOf(d).v[i])
       THEN "AttributeError"
  ELSE ""

\* The bullet character of the source (U+2022) is written "*".
PerspectiveLine(p) ==
  << "* ", Join(TitleStr(Get(p.perspective_type, <<"U", "n", "k", "n", "o", "w", "n">>).v)),
     ": '", FormatStrOr(p.query, "N/A"), "' (", FormatIntOr(p.images_found, IntToStr(0)),
     " images)\n" >>

ImageEntry(i, img) ==
  << IntToStr(i), ". Title: ", FormatStrOr(img.title, "Untitled"), "\n",
     "   Source: ", FormatStrOr(img.display_link, "N/A"), "\n",
     "   Perspective: ", FormatStrOr(img.perspective_query, "N/A"), "\n",
     "   Size: ", FormatIntOr(img.width, "N/A"), "x", FormatIntOr(img.height, "N/A"), "\n\n" >>

RECURSIVE Flatten(_)
Flatten(ss) == IF ss = <<>> THEN <<>> ELSE ss[1] \o Flatten(Tail(ss))

ImageContext(d) ==
  << "\nI found ", IntToStr(Len(d.images.v)), " relevant images from ",
     IntToStr(Len(PerspectivesOf(d).v)),
     " different search perspectives:\n\nSEARCH PERSPECTIVES USED:\n" >>
  \o Flatten([i \in DOMAIN PerspectivesOf(d).v |-> PerspectiveLine(PerspectivesOf(d).v[i])])
  \o << "\nIMAGE DETAILS FOUND:\n" >>
  \o Flatten([i \in DOMAIN ShownImages(d.images.v) |-> ImageEntry(i, ShownImages(d.images.v)[i])])

CompositePrompt(q, d) ==
  << "\nAnswer this query comprehensively: \"", q,
     "\"\n\nIMPORTANT: I have found relevant images that provide visual context for this topic. Use this image information to enhance your response:\n\n" >>
  \o ImageContext(d)
  \o << "\n\nGuidelines:\n1. Reference the specific images found and how they relate to your explanation\n2. Mention the different perspectives covered by the image search\n3. Explain how the visual content complements your text response\n4. Provide a comprehensive answer that combines your knowledge with the visual evidence found\n\nProvide a detailed response that integrates both textual explanation and references to the visual content discovered.\n" >>

BuildPrompt(q, d) == IF UsesPlainPrompt(d) THEN PlainPrompt(q) ELSE CompositePrompt(q, d)

(***************************************************************************)
(* search_images and process_query: the pure parts.                        *)
(***************************************************************************)
\* Faulty variant: the last record of the dataset.
LastOrEmpty(results) == IF Len(results) > 0 THEN results[Len(results)] ELSE EmptyDict

\* results[0] if results else {}
FirstOrEmpty(results) == IF Len(results) > 0 THEN results[1] ELSE EmptyDict

\* Faulty variant: the search is started whatever the classification said.
SearchAlways(needs) == TRUE

\* if needs_images:
SearchWanted(needs) == needs

\* The print after the search takes len(images_data.get('search_perspectives', [])):
\* a TypeError when the key holds None.
ReportError(d) == IF PerspectivesOf(d).tag = "none" THEN "TypeError" ELSE ""

\* Faulty variant: the flag follows the images list.
ImageAwareFromImages(d) == TruthySeq(GetNone(d.images))

\* 'image_aware_response': bool(images_data)
ImageAwareResponse(d) == Truthy(d)

\* Faulty variant: the count of the images present.
TotalFromImages(d) == [tag |-> "val", v |-> Len(d.images.v)]

\* 'total_images': images_data.get('total_results', 0)
TotalImages(d) == Get(d.total_results, 0)

\* The dict process_query returns.
ProcessedResult(q, text, d) ==
  [query |-> q,
   text_response |-> text,
   images |-> Get(d.images, <<>>),
   total_images |-> TotalImages(d),
   perspectives |-> Get(d.search_perspectives, <<>>),
   image_aware_response |-> ImageAwareResponse(d)]

\* Faulty variant: a failed search is swallowed and the query goes on without images.
SwallowSearchError(step) ==
  IF step = "search" THEN [pc |-> "compose", exception |-> ""]
  ELSE [pc |-> "raised", exception |-> "UpstreamError"]

\* No operation catches an exception: a failed remote call ends the query.
AfterUpstreamError(step) == [pc |-> "raised", exception |-> "UpstreamError"]

(***************************************************************************)
(* State.                                                                  *)
(*   pc           where the call stands: "start", "classified", "fetch",   *)
(*                "report", "compose", "composed", "returned", "raised"    *)
(*   query        the argument                                             *)
(*   content      response.content in should_search_images                 *)
(*   needs_images the value should_search_images returned                  *)
(*   dataset      the records of the actor run's default dataset           *)
(*   images_data  the local of process_query / the argument of             *)
(*                get_text_response_with_images                            *)
(*   calls        the remote steps started so far, in order                *)
(*   llm_prompts  the prompts sent to the text service, in order           *)
(*   reply        response.content in get_text_response_with_images        *)
(*   text_response what get_text_response_with_images returned             *)
(*   result       <<>> or <<r>>, r the dict process_query returned         *)
(*   exception    the exception that left the call, "" for none            *)
(*   failed       the remote step that failed, "" for none                 *)
(***************************************************************************)
VARIABLES pc, query, content, needs_images, dataset, images_data, calls,
          llm_prompts, reply, text_response, result, exception, failed

vars == <<pc, query, content, needs_images, dataset, images_data, calls,
          llm_prompts, reply, text_response, result, exception, failed>>

Blank ==
  /\ content = <<>>
  /\ needs_images = FALSE
  /\ dataset = <<>>
  /\ calls = <<>>
  /\ llm_prompts = <<>>
  /\ reply = ""
  /\ text_response = ""
  /\ result = <<>>
  /\ exception = ""
  /\ failed = ""

\* process_query(query) has been called.
Init ==
  /\ pc = "start"
  /\ query \in Queries
  /\ images_data = NoneData
  /\ Blank

\* get_text_response_with_images(query, images_data) has been called with an
\* argument of its declared type: None, {} or an image search result.
InitCompose ==
  /\ pc = "compose"
  /\ query \in Queries
  /\ images_data \in {NoneData, EmptyDict} \cup TypedRecords
  /\ Blank

(***************************************************************************)
(* should_search_images.                                                   *)
(***************************************************************************)
ShouldSearchImages ==
  /\ pc = "start"
  /\ \E c \in ClassifyResponses :
       /\ content' = c
       /\ needs_images' = NeedsImagesOf(c)
  /\ calls' = Append(calls, "classify")
  /\ llm_prompts' = Append(llm_prompts, ClassifyPrompt(query))
  /\ pc' = "classified"
  /\ UNCHANGED <<query, dataset, images_data, reply, text_response, result, exception, failed>>

ShouldSearchImagesFails ==
  /\ pc = "start"
  /\ calls' = Append(calls, "classify")
  /\ llm_prompts' = Append(llm_prompts, ClassifyPrompt(query))
  /\ failed' = "classify"
  /\ pc' = AfterUpstreamError("classify").pc
  /\ exception' = AfterUpstreamError("classify").exception
  /\ UNCHANGED <<query, content, needs_images, dataset, images_data, reply, text_response, result>>

(***************************************************************************)
(* process_query, step 2: images_data = {} and, if needed, search_images.  *)
(***************************************************************************)
SkipSearch ==
  /\ pc = "classified"
  /\ ~SearchWanted(needs_images)
  /\ images_data' = EmptyDict
  /\ content' = <<>>
  /\ pc' = "compose"
  /\ UNCHANGED <<query, needs_images, dataset, calls, llm_prompts, reply, text_response, result, exception, failed>>

\* The actor run: .call(run_input) returns when the run has finished and its
\* dataset holds what the run produced.
ActorCall ==
  /\ pc = "classified"
  /\ SearchWanted(needs_images)
  /\ images_data' = EmptyDict
  /\ content' = <<>>
  /\ calls' = Append(calls, "search")
  /\ dataset' \in Datasets
  /\ pc' = "fetch"
  /\ UNCHANGED <<query, needs_images, llm_prompts, reply, text_response, result, exception, failed>>

ActorCallFails ==
  /\ pc = "classified"
  /\ SearchWanted(needs_images)
  /\ images_data' = EmptyDict
  /\ content' = <<>>
  /\ calls' = Append(calls, "search")
  /\ failed' = "search"
  /\ pc' = AfterUpstreamError("search").pc
  /\ exception' = AfterUpstreamError("search").exception
  /\ UNCHANGED <<query, needs_images, dataset, llm_prompts, reply, text_response, result>>

\* list(dataset.iterate_items()); return results[0] if results else {}
IterateItems ==
  /\ pc = "fetch"
  /\ images_data' = FirstOrEmpty(dataset)
  /\ pc' = "report"
  /\ UNCHANGED <<query, content, needs_images, dataset, calls, llm_prompts, reply, text_response, result, exception, failed>>

IterateItemsFails ==
  /\ pc = "fetch"
  /\ failed' = "search"
  /\ pc' = AfterUpstreamError("search").pc
  /\ exception' = AfterUpstreamError("search").exception
  /\ UNCHANGED <<query, content, needs_images, dataset, images_data, calls, llm_prompts, reply, text_response, result>>

\* print(f"... Found {total_results} images from {len(perspectives)} perspectives")
ReportFound ==
  /\ pc = "report"
  /\ ReportError(images_data) = ""
  /\ pc' = "compose"
  /\ UNCHANGED <<query, content, needs_images, dataset, images_data, calls, llm_prompts, reply, text_response, result, exception, failed>>

ReportRaises ==
  /\ pc = "report"
  /\ ReportError(images_data) # ""
  /\ pc' = "raised"
  /\ exception' = ReportError(images_data)
  /\ UNCHANGED <<query, content, needs_images, dataset, images_data, calls, llm_prompts, reply, text_response, result, failed>>

(***************************************************************************)
(* get_text_response_with_images.                                          *)
(***************************************************************************)
GetTextResponse ==
  /\ pc = "compose"
  /\ BuildError(images_data) = ""
  /\ calls' = Append(calls, "compose")
  /\ llm_prompts' = Append(llm_prompts, BuildPrompt(query, images_data))
  /\ reply' \in ComposeResponses
  /\ text_response' = reply'
  /\ pc' = "composed"
  /\ UNCHANGED <<query, content, needs_images, dataset, images_data, result, exception, failed>>

GetTextResponseFails ==
  /\ pc = "compose"
  /\ BuildError(images_data) = ""
  /\ calls' = Append(calls, "compose")
  /\ llm_prompts' = Append(llm_prompts, BuildPrompt(query, images_data))
  /\ failed' = "compose"
  /\ pc' = AfterUpstreamError("compose").pc
  /\ exception' = AfterUpstreamError("compose").exception
  /\ UNCHANGED <<query, content, needs_images, dataset, images_data, reply, text_response, result>>

\* Building the composite prompt raises before anything is sent.
GetTextResponseRaises ==
  /\ pc = "compose"
  /\ BuildError(images_data) # ""
  /\ pc' = "raised"
  /\ exception' = BuildError(images_data)
  /\ UNCHANGED <<query, content, needs_images, dataset, images_data, calls, llm_prompts, reply, text_response, result, failed>>

(***************************************************************************)
(* process_query: the return statement.                                    *)
(***************************************************************************)
ReturnResult ==
  /\ pc = "composed"
  /\ result' = <<ProcessedResult(query, text_response, images_data)>>
  /\ pc' = "returned"
  /\ UNCHANGED <<query, content, needs_images, dataset, images_data, calls, llm_prompts, reply, text_response, exception, failed>>

Next ==
  \/ ShouldSearchImages
  \/ ShouldSearchImagesFails
  \/ SkipSearch
  \/ ActorCall
  \/ ActorCallFails
  \/ IterateItems
  \/ IterateItemsFails
  \/ ReportFound
  \/ ReportRaises
  \/ GetTextResponse
  \/ GetTextResponseFails
  \/ GetTextResponseRaises
  \/ ReturnResult

Spec == Init /\ [][Next]_vars

\* A direct call of get_text_response_with_images.
NextCompose ==
  \/ GetTextResponse
  \/ GetTextResponseFails

SpecCompose == InitCompose /\ [][NextCompose]_vars

(***************************************************************************)
(* Vocabulary of the properties.                                           *)
(***************************************************************************)
Range(f) == {f[i] : i \in DOMAIN f}
IsPrefix(a, b) == Len(a) <= Len(b) /\ SubSeq(b, 1, Len(a)) = a
Count(f, x) == Cardinality({i \in DOMAIN f : f[i] = x})
LastPrompt == llm_prompts[Len(llm_prompts)]

\* search_images has returned to process_query.
SearchReturned == needs_images /\ pc \in {"report", "compose", "composed", "returned"}

\* The run's dataset holds a first record and that record is not {}.
NonEmptyRecordFound == Len(dataset) > 0 /\ dataset[1] # EmptyDict

\* The prompt is the plain template with the query substituted.
IsPlainPrompt(p, q) == p = <<"Answer this query comprehensively: '", q, "'">>

\* The prompt carries the image search metadata.
CarriesImageContext(p) ==
  /\ \E i \in DOMAIN p : p[i] = "\nI found "
  /\ \E i \in DOMAIN p : p[i] = "\nIMAGE DETAILS FOUND:\n"

EmptyList == [tag |-> "val", v |-> <<>>]
Zero == [tag |-> "val", v |-> 0]

C2_ResultMirrorsSearchResult ==
  (pc = "returned" /\ needs_images /\ NonEmptyRecordFound) =>
    LET R == dataset[1]
        r == result[1]
    IN /\ r.image_aware_response
       /\ r.images = (IF R.images.tag = "absent" THEN EmptyList ELSE R.images)
       /\ r.perspectives =
            (IF R.search_perspectives.tag = "absent" THEN EmptyList ELSE R.search_perspectives)
       /\ r.total_images = (IF R.total_results.tag = "absent" THEN Zero ELSE R.total_results)

\* total_results = 7 with two perspectives and three images.
C2_Witness ==
  /\ pc = "returned"
  /\ needs_images
  /\ result[1].total_images = [tag |-> "val", v |-> 7]
  /\ Len(result[1].perspectives.v) = 2
  /\ Len(result[1].images.v) = 3

(***************************************************************************)
(* C3: the remote steps of a query run in the order classify, then search  *)
(* (once if the classification was true, never otherwise), then compose,   *)
(* each at most once; the record is returned only after the compose call   *)
(* has returned, with three calls made for a needs-images query and two    *)
(* for a text-only one.                                                    *)
(***************************************************************************)
ExpectedCalls ==
  IF needs_images THEN <<"classify", "search", "compose">> ELSE <<"classify", "compose">>

C3_LinearCallOrder ==
  /\ IsPrefix(calls, ExpectedCalls)
  /\ pc = "start" => calls = <<>>
  /\ pc \in {"classified", "fetch", "report", "compose"} => Len(calls) < Len(ExpectedCalls)
  /\ pc \in {"composed", "returned"} => calls = ExpectedCalls
  /\ Len(result) = 1 <=> pc = "returned"
  /\ Len(llm_prompts) = Count(calls, "classify") + Count(calls, "compose")

C3_Witness ==
  /\ pc = "returned"
  /\ calls = <<"classify", "search", "compose">>

(***************************************************************************)
(* C4: when a remote call fails, the failure leaves process_query as it    *)
(* is: no record is returned, the failed call was made once and is the     *)
(* last call made.                                                         *)
(***************************************************************************)
C4_FailurePropagates ==
  failed # "" =>
    /\ pc = "raised"
    /\ exception = "UpstreamError"
    /\ result = <<>>
    /\ text_response = ""
    /\ calls[Len(calls)] = failed
    /\ Count(calls, failed) = 1

\* The read of the dataset failed after the actor run had succeeded.
C4_Witness ==
  /\ failed = "search"
  /\ Len(dataset) > 0
  /\ calls = <<"classify", "search">>

(***************************************************************************)
(* C7: search_images returns the first record of the dataset, or {} when   *)
(* the dataset has none; a needs-images query whose run produced no record *)
(* is answered from the plain prompt and returns image_aware_response      *)
(* false, no images, no perspectives and total_images 0.                   *)
(***************************************************************************)
C7_FirstRecordOrEmpty ==
  /\ SearchReturned =>
       images_data = (IF Len(dataset) >= 1 THEN dataset[1] ELSE EmptyDict)
  /\ (needs_images /\ dataset = <<>> /\ pc \in {"composed", "returned"}) =>
       IsPlainPrompt(LastPrompt, query)
  /\ (needs_images /\ dataset = <<>> /\ pc = "returned") =>
       /\ ~result[1].image_aware_response
       /\ result[1].images = EmptyList
       /\ result[1].perspectives = EmptyList
       /\ result[1].total_images = Zero

C7_Witness ==
  /\ pc = "returned"
  /\ needs_images
  /\ dataset = <<>>
  /\ calls = <<"classify", "search", "compose">>

(***************************************************************************)
(* C8: should_search_images returns true iff the response has a "y", an    *)
(* "e" and an "s" in a row, in either case, anywhere in it; "Yes,          *)
(* absolutely" gives true and "No." gives false.                           *)
(***************************************************************************)
HasYes(text) ==
  \E i \in 1..(Len(text) - 2) :
     /\ text[i] \in {"y", "Y"}
     /\ text[i + 1] \in {"e", "E"}
     /\ text[i + 2] \in {"s", "S"}

C8_YesSubstring ==
  pc = "classified" =>
    /\ needs_images <=> HasYes(content)
    /\ content = <<"Y", "e", "s", ",", " ", "a", "b", "s", "o", "l", "u", "t", "e", "l", "y">>
         => needs_images
    /\ content = <<"N", "o", ".">> => ~needs_images

\* "eyes": the three letters inside a longer word, in lower case.
C8_Witness ==
  /\ pc = "classified"
  /\ content = <<"e", "y", "e", "s">>
  /\ needs_images

(***************************************************************************)
(* Reading a composite prompt back.                                        *)
(***************************************************************************)
\* The compose prompt has been built and sent.
PromptSent == Len(calls) > 0 /\ calls[Len(calls)] = "compose"

\* Where the pieces of the prompt stand.
IndexOf(p, piece) == CHOOSE i \in DOMAIN p : p[i] = piece
TitleMarks(p) == {i \in DOMAIN p : p[i] = ". Title: "}
\* The ". Title: " piece of the k-th image entry and the "* " piece of the
\* k-th perspective line.
EntryAt(p, k) == IndexOf(p, "\nIMAGE DETAILS FOUND:\n") + 2 + 15 * (k - 1)
LineAt(p, k) == IndexOf(p, "\nI found ") + 5 + 7 * (k - 1)

\* What the prompt shows for a key: its value, the text None, or the placeholder.
Shown(f, placeholder) ==
  CASE f.tag = "absent" -> placeholder
    [] f.tag = "none" -> "None"
    [] OTHER -> f.v

Missing(f) == f.tag \in {"absent", "none"}

(***************************************************************************)
(* C5: get_text_response_with_images sends the plain prompt, exactly       *)
(* "Answer this query comprehensively: '<query>'", iff images_data is      *)
(* None, is {} or has an absent or empty images list, and the composite    *)
(* prompt otherwise; either way it makes one text-service call and returns *)
(* the text of its response.                                               *)
(***************************************************************************)
PlainCase ==
  \/ images_data.none
  \/ images_data = EmptyDict
  \/ images_data.images.tag = "absent"
  \/ images_data.images.tag = "val" /\ images_data.images.v = <<>>

C6_FirstFiveImages ==
  (PromptSent /\ TruthySeq(images_data.images)) =>
    LET p == LastPrompt
        images == images_data.images.v
        n == Len(images)
        m == IF n < 5 THEN n ELSE 5
    IN /\ CarriesImageContext(p)
       /\ p[IndexOf(p, "\nI found ") + 1] = IntToStr(n)
       /\ Cardinality(TitleMarks(p)) = m
       /\ TitleMarks(p) = {EntryAt(p, k) : k \in 1..m}
       /\ \A k \in 1..m :
            /\ p[EntryAt(p, k) - 1] = IntToStr(k)
            /\ p[EntryAt(p, k) + 1] = Shown(images[k].title, "Untitled")
            /\ p[EntryAt(p, k) + 4] = Shown(images[k].display_link, "N/A")
            /\ p[EntryAt(p, k) + 7] = Shown(images[k].perspective_query, "N/A")

\* More images than the prompt shows.
C6_Witness ==
  /\ pc = "returned"
  /\ Len(images_data.images.v) > 5
  /\ Cardinality(TitleMarks(LastPrompt)) = 5

(***************************************************************************)
(* C9: composing never fails on missing data: whatever key of the search   *)
(* result, of a perspective or of an image is missing (absent or null),    *)
(* the call completes and the prompt carries the placeholder: Unknown,     *)
(* N/A, Untitled, 0.                                                       *)
(***************************************************************************)
PlaceholdersShown(p, d) ==
  /\ \A k \in 1..Len(PerspectivesOf(d).v) :
       LET persp == PerspectivesOf(d).v[k]
       IN /\ Missing(persp.perspective_type) => p[LineAt(p, k) + 1] = "Unknown"
          /\ Missing(persp.query) => p[LineAt(p, k) + 3] = "N/A"
          /\ Missing(persp.images_found) => p[LineAt(p, k) + 5] = "0"
  /\ \A k \in 1..Cardinality(TitleMarks(p)) :
       LET img == d.images.v[k]
       IN /\ Missing(img.title) => p[EntryAt(p, k) + 1] = "Untitled"
          /\ Missing(img.display_link) => p[EntryAt(p, k) + 4] = "N/A"
          /\ Missing(img.perspective_query) => p[EntryAt(p, k) + 7] = "N/A"
          /\ Missing(img.width) => p[EntryAt(p, k) + 10] = "N/A"
          /\ Missing(img.height) => p[EntryAt(p, k) + 12] = "N/A"

C9_NeverFailsOnMissingData ==
  /\ exception \notin {"TypeError", "AttributeError"}
  /\ (PromptSent /\ CarriesImageContext(LastPrompt)) =>
       PlaceholdersShown(LastPrompt, images_data)

\* What does hold: a key that is absent, as opposed to null, never makes the
\* call fail and is shown by its placeholder.
AbsentKeysShown(p, d) ==
  /\ \A k \in 1..Len(PerspectivesOf(d).v) :
       LET persp == PerspectivesOf(d).v[k]
       IN /\ persp.perspective_type.tag = "absent" => p[LineAt(p, k) + 1] = "Unknown"
          /\ persp.query.tag = "absent" => p[LineAt(p, k) + 3] = "N/A"
          /\ persp.images_found.tag = "absent" => p[LineAt(p, k) + 5] = "0"
  /\ \A k \in 1..Cardinality(TitleMarks(p)) :
       LET img == d.images.v[k]
       IN /\ img.title.tag = "absent" => p[EntryAt(p, k) + 1] = "Untitled"
          /\ img.display_link.tag = "absent" => p[EntryAt(p, k) + 4] = "N/A"
          /\ img.perspective_query.tag = "absent" => p[EntryAt(p, k) + 7] = "N/A"
          /\ img.width.tag = "absent" => p[EntryAt(p, k) + 10] = "N/A"
          /\ img.height.tag = "absent" => p[EntryAt(p, k) + 12] = "N/A"

NoNullReached(d) ==
  /\ d.search_perspectives.tag # "none"
  /\ \A k \in 1..Len(d.search_perspectives.v) :
       d.search_perspectives.v[k].perspective_type.tag # "none"

AbsentKeysNeverFail ==
  /\ (pc = "raised" /\ failed = "") => ~NoNullReached(images_data)
  /\ (PromptSent /\ CarriesImageContext(LastPrompt)) => AbsentKeysShown(LastPrompt, images_data)

\* What also holds: a composite prompt is only ever sent for a record that
\* sets the flag.
CompositeImpliesFlag ==
  pc = "returned" =>
    (CarriesImageContext(LastPrompt) => result[1].image_aware_response)

(***************************************************************************)
(* C10: process_query returns image_aware_response = true exactly when the *)
(* text was produced from the composite prompt.                            *)
(***************************************************************************)
C10_FlagIffCompositePrompt ==
  pc = "returned" =>
    (result[1].image_aware_response <=> CarriesImageContext(LastPrompt))

====
